---- MODULE Spec2Model ----
(***************************************************************************)
(* A model of maxminddb.c, the C extension behind maxminddb.Reader: the    *)
(* Reader object's life cycle (get, metadata, close, dealloc) and the      *)
(* decoder from_entry_data_list / from_map / from_array / from_uint128     *)
(* that turns libmaxminddb's pre-order entry data list into Python values. *)
(*                                                                         *)
(* Machine integers are kept as big-endian byte sequences of their C       *)
(* width, Python ints as sign and magnitude in little-endian base-256      *)
(* digits without leading zeros, so no value is cut to a 32-bit word. *)
(***************************************************************************)
EXTENDS Integers, Sequences, FiniteSets, TLC

(* ------------------------------------------------------------------ *)
(* Bounds of the model                                                 *)
(* ------------------------------------------------------------------ *)

\* Longest entry data list built from a nested value.
MaxLen == 5

\* Largest declared size of a Map or Array node.
MaxSize == 2

(* ------------------------------------------------------------------ *)
(* Program constants                                                   *)
(* ------------------------------------------------------------------ *)

\* The entry_data.type tags the switch of from_entry_data_list names.
MMDB_DATA_TYPE_UTF8_STRING == 2
MMDB_DATA_TYPE_DOUBLE == 3
MMDB_DATA_TYPE_BYTES == 4
MMDB_DATA_TYPE_UINT16 == 5
MMDB_DATA_TYPE_UINT32 == 6
MMDB_DATA_TYPE_MAP == 7
MMDB_DATA_TYPE_INT32 == 8
MMDB_DATA_TYPE_UINT64 == 9
MMDB_DATA_TYPE_UINT128 == 10
MMDB_DATA_TYPE_ARRAY == 11
MMDB_DATA_TYPE_BOOLEAN == 14
MMDB_DATA_TYPE_FLOAT == 15

\* sizeof(long) of the build: the argument width of PyLong_FromLong (LP64).
LongBytes == 8

\* The field width of "%016" PRIX64 in from_uint128.
HexWidth == 16

\* The base PyLong_FromString is called with in from_uint128.
HexBase == 16

(* ------------------------------------------------------------------ *)
(* Python objects                                                      *)
(* ------------------------------------------------------------------ *)

\* A NULL PyObject pointer.
NullObj == [t |-> "NULL", v |-> <<>>]

PyObj(tag, val) == [t |-> tag, v |-> val]

\* The test "NULL == value".
IsNull(obj) == obj.t = "NULL"

\* Least significant digit first; drops the most significant zero digits.
RECURSIVE Normalize(_)
Normalize(le) ==
    IF le = <<>> THEN <<>>
    ELSE IF le[Len(le)] = 0 THEN Normalize(SubSeq(le, 1, Len(le) - 1))
    ELSE le

Reverse(s) == [i \in 1..Len(s) |-> s[Len(s) + 1 - i]]

\* le * m + c on little-endian base-256 digits.
RECURSIVE MulAdd(_, _, _)
MulAdd(le, m, c) ==
    IF le = <<>>
    THEN IF c = 0 THEN <<>> ELSE <<c % 256>> \o MulAdd(<<>>, m, c \div 256)
    ELSE LET x == le[1] * m + c
         IN  <<x % 256>> \o MulAdd(Tail(le), m, x \div 256)

\* Two's complement negation of a little-endian word of Len(le) bytes.
NegateWord(le) ==
    SubSeq(MulAdd([i \in 1..Len(le) |-> 255 - le[i]], 1, 1) \o
           [i \in 1..Len(le) |-> 0], 1, Len(le))

PyInt(neg, mag) == PyObj("int", [neg |-> neg, mag |-> mag])

\* A slip: the unsigned field widened as if it were signed.
UnsignedToLong_SignExtends(be) ==
    IF Len(be) >= LongBytes
    THEN SubSeq(be, Len(be) - LongBytes + 1, Len(be))
    ELSE [i \in 1..(LongBytes - Len(be)) |-> IF be[1] >= 128 THEN 255 ELSE 0] \o be

\* The C conversion of an unsigned field of Len(be) bytes to long.
UnsignedToLong(be) ==
    IF Len(be) >= LongBytes
    THEN SubSeq(be, Len(be) - LongBytes + 1, Len(be))
    ELSE [i \in 1..(LongBytes - Len(be)) |-> 0] \o be

\* The C conversion of a signed field of Len(be) bytes to long.
SignedToLong(be) ==
    IF Len(be) >= LongBytes
    THEN SubSeq(be, Len(be) - LongBytes + 1, Len(be))
    ELSE [i \in 1..(LongBytes - Len(be)) |-> IF be[1] >= 128 THEN 255 ELSE 0] \o be

\* PyLong_FromLong on a long held as big-endian two's complement bytes.
PyLong_FromLong(long) ==
    IF long[1] >= 128
    THEN PyInt(TRUE, Normalize(NegateWord(Reverse(long))))
    ELSE PyInt(FALSE, Normalize(Reverse(long)))

\* PyLong_FromUnsignedLongLong on a uint64 held as 8 big-endian bytes.
PyLong_FromUnsignedLongLong(u64) == PyInt(FALSE, Normalize(Reverse(u64)))

\* PyBool_FromLong: any nonzero flag is True.
PyBool_FromLong(flag) == PyObj("bool", flag # 0)

\* PyFloat_FromDouble: the double is kept as it is (a pair <<m, e>>: m * 2^e).
PyFloat_FromDouble(d) == PyObj("float", d)

\* A slip: the float passed through an integer, its fraction lost.
FloatToDouble_ViaInteger(f) ==
    IF f[2] >= 0 THEN f
    ELSE IF f[2] < -30 THEN <<0, 0>>
    ELSE <<f[1] \div (2 ^ (0 - f[2])), 0>>

\* The implicit C conversion float -> double: every float is a double.
FloatToDouble(f) == f

\* The first size units at a pointer; the library sets data_size to the
\* payload's length, so no more than that is ever asked for.
Copy(buf, size) == SubSeq(buf, 1, IF size < Len(buf) THEN size ELSE Len(buf))

\* PyUnicode_FromStringAndSize: the first size code units at the pointer.
PyUnicode_FromStringAndSize(str, size) == PyObj("str", Copy(str, size))

\* PyByteArray_FromStringAndSize: the first size bytes at the pointer.
PyByteArray_FromStringAndSize(bytes, size) == PyObj("bytearray", Copy(bytes, size))

(* ------------------------------------------------------------------ *)
(* from_uint128                                                        *)
(* ------------------------------------------------------------------ *)

HexChars == <<"0", "1", "2", "3", "4", "5", "6", "7",
              "8", "9", "A", "B", "C", "D", "E", "F">>

HexValue(ch) == (CHOOSE i \in 1..16 : HexChars[i] = ch) - 1

\* (w << 8) | b on a uint64 held as 8 big-endian bytes: the top byte is lost.
ShiftOr(w, b) == Tail(w) \o <<b>>

\* The loop "for (i = from; i < to; i++) w = (w << 8) | uint128[i]" (0-based i).
RECURSIVE GatherBytes(_, _, _, _)
GatherBytes(w, bytes, from, to) ==
    IF from >= to THEN w
    ELSE GatherBytes(ShiftOr(w, bytes[from + 1]), bytes, from + 1, to)

Zero64 == [i \in 1..8 |-> 0]

\* A native unsigned __int128 is eight 16-bit limbs, most significant first.
LimbsToBytes(limbs) ==
    [i \in 1..(2 * Len(limbs)) |->
        IF i % 2 = 1 THEN limbs[(i + 1) \div 2] \div 256
        ELSE limbs[i \div 2] % 256]

\* uint128 >> 64, cut to uint64.
NativeHigh(limbs) == LimbsToBytes(SubSeq(limbs, 1, 4))

\* (uint64_t)uint128.
NativeLow(limbs) == LimbsToBytes(SubSeq(limbs, 5, 8))

RECURSIVE StripZeroNibbles(_)
StripZeroNibbles(ns) ==
    IF Len(ns) > 1 /\ ns[1] = 0 THEN StripZeroNibbles(Tail(ns)) ELSE ns

\* A slip: "%llX" with no field width, so a half loses its leading zeros.
FormatHex_NoPad(u64, width) ==
    LET nibbles == [i \in 1..16 |->
                       IF i % 2 = 1 THEN u64[(i + 1) \div 2] \div 16
                       ELSE u64[i \div 2] % 16]
        digits == StripZeroNibbles(nibbles)
    IN  [i \in 1..Len(digits) |-> HexChars[digits[i] + 1]]

\* printf's "%0<width>llX" of a uint64: its hex digits, zero-padded to width.
FormatHex(u64, width) ==
    LET nibbles == [i \in 1..16 |->
                       IF i % 2 = 1 THEN u64[(i + 1) \div 2] \div 16
                       ELSE u64[i \div 2] % 16]
        digits == StripZeroNibbles(nibbles)
        pad == IF Len(digits) < width THEN width - Len(digits) ELSE 0
    IN  [i \in 1..pad |-> "0"] \o [i \in 1..Len(digits) |-> HexChars[digits[i] + 1]]

\* snprintf(num_str, 33, "%016llX%016llX", high, low): at most 32 characters.
FormatUint128(high, low) ==
    LET s == FormatHex(high, HexWidth) \o FormatHex(low, HexWidth)
    IN  SubSeq(s, 1, IF Len(s) < 32 THEN Len(s) ELSE 32)

\* PyLong_FromString(str, NULL, base) on a string of digits.
RECURSIVE ParseDigits(_, _, _)
ParseDigits(str, base, acc) ==
    IF str = <<>> THEN acc
    ELSE ParseDigits(Tail(str), base, MulAdd(acc, base, HexValue(str[1])))

PyLong_FromString(str, base) == PyInt(FALSE, Normalize(ParseDigits(str, base, <<>>)))

\* The byte-array build (MMDB_UINT128_IS_BYTE_ARRAY): uint128 is uint8_t[16].
from_uint128_bytes(uint128) ==
    LET high == GatherBytes(Zero64, uint128, 0, 8)
        low == GatherBytes(Zero64, uint128, 8, 16)
    IN  PyLong_FromString(FormatUint128(high, low), HexBase)

\* The native build: uint128 is an unsigned __int128.
from_uint128_native(uint128) ==
    PyLong_FromString(FormatUint128(NativeHigh(uint128), NativeLow(uint128)), HexBase)

\* The payload says which build produced it: 16 bytes or 8 limbs.
from_uint128(uint128) ==
    IF Len(uint128) = 16 THEN from_uint128_bytes(uint128)
    ELSE from_uint128_native(uint128)

(* ------------------------------------------------------------------ *)
(* The entry data list and the decoder                                 *)
(* ------------------------------------------------------------------ *)

\* An MMDB_entry_data_list_s node: entry_data.type, entry_data.data_size and
\* the union member its type selects. Node i of a list links to node i + 1;
\* the last node's next is NULL, written 0.
Node(type, size, val) == [type |-> type, data_size |-> size, val |-> val]

NextNode(list, cur) == IF cur < Len(list) THEN cur + 1 ELSE 0

NoError == <<>>

\* The decoder's running state: the cursor *entry_data_list (cur), every
\* value it took (path), the nodes decoded so far in order (visits), the
\* calls of from_entry_data_list that returned (calls), the error indicator
\* (err), whether a NULL cursor was dereferenced (fault), and the object
\* the call in progress returns (obj).
StartCtx ==
    [obj |-> NullObj, err |-> NoError, fault |-> FALSE, cur |-> 1,
     visits |-> <<>>, path |-> <<1>>, calls |-> <<>>]

\* *entry_data_list = (*entry_data_list)->next
Advance(list, c) ==
    LET n == NextNode(list, c.cur)
    IN  [c EXCEPT !.cur = n, !.path = Append(@, n)]

Visit(c) == [c EXCEPT !.visits = Append(@, c.cur)]

\* A read of (*entry_data_list)->... with *entry_data_list == NULL.
NullDeref(c) == [c EXCEPT !.fault = TRUE, !.obj = NullObj, !.visits = Append(@, 0)]

PyDict_New == PyObj("dict", <<>>)

\* A slip: a key already present keeps its first value.
PyDict_SetItem_KeepsFirst(dict, key, value) ==
    PyObj("dict", dict.v @@ (key.v :> value))

PyDict_SetItem(dict, key, value) == PyObj("dict", (key.v :> value) @@ dict.v)

PyList_New(size) == PyObj("list", [i \in 1..size |-> NullObj])

\* PyList_SetItem with a 0-based index; an index out of range stores nothing.
PyList_SetItem(lst, i, value) ==
    IF i + 1 \in DOMAIN lst.v THEN PyObj("list", [lst.v EXCEPT ![i + 1] = value])
    ELSE lst

\* PyErr_Format(MaxMindDB_error, "Invalid data type arguments: %d", type)
InvalidDataType(type) == <<"InvalidDatabaseError", "Invalid data type arguments", type>>

\* The scalar cases of the switch: the cursor is left where it is.
from_scalar(node) ==
    CASE node.type = MMDB_DATA_TYPE_UTF8_STRING ->
            PyUnicode_FromStringAndSize(node.val, node.data_size)
      [] node.type = MMDB_DATA_TYPE_BYTES ->
            PyByteArray_FromStringAndSize(node.val, node.data_size)
      [] node.type = MMDB_DATA_TYPE_DOUBLE -> PyFloat_FromDouble(node.val)
      [] node.type = MMDB_DATA_TYPE_FLOAT -> PyFloat_FromDouble(FloatToDouble(node.val))
      [] node.type = MMDB_DATA_TYPE_UINT16 -> PyLong_FromLong(UnsignedToLong(node.val))
      [] node.type = MMDB_DATA_TYPE_UINT32 -> PyLong_FromLong(UnsignedToLong(node.val))
      [] node.type = MMDB_DATA_TYPE_BOOLEAN -> PyBool_FromLong(node.val[1])
      [] node.type = MMDB_DATA_TYPE_UINT64 -> PyLong_FromUnsignedLongLong(node.val)
      [] node.type = MMDB_DATA_TYPE_UINT128 -> from_uint128(node.val)
      [] node.type = MMDB_DATA_TYPE_INT32 -> PyLong_FromLong(SignedToLong(node.val))
      [] OTHER -> NullObj

ScalarTypes ==
    {MMDB_DATA_TYPE_UTF8_STRING, MMDB_DATA_TYPE_BYTES, MMDB_DATA_TYPE_DOUBLE,
     MMDB_DATA_TYPE_FLOAT, MMDB_DATA_TYPE_UINT16, MMDB_DATA_TYPE_UINT32,
     MMDB_DATA_TYPE_BOOLEAN, MMDB_DATA_TYPE_UINT64, MMDB_DATA_TYPE_UINT128,
     MMDB_DATA_TYPE_INT32}

\* The loop conditions "i < map_size && entry_data_list" and
\* "i < size && entry_data_list": entry_data_list is the address of the
\* caller's cursor variable, never NULL, so the second conjunct is TRUE
\* whatever the cursor holds.
\* A slip: the loop stops one pair early.
MapLoopCond_OffByOne(i, map_size, cur) == i + 1 < map_size

MapLoopCond(i, map_size, cur) == i < map_size /\ TRUE

\* A slip: the loop runs once more than the size.
ArrayLoopCond_OneMore(i, size, cur) == i <= size

ArrayLoopCond(i, size, cur) == i < size /\ TRUE

\* A slip: every element stored in the first slot.
ArraySlot_First(i) == 0

\* Where "PyList_SetItem(py_obj, i, value)" stores the i-th decoded element.
ArraySlot(i) == i

\* The value of a one-element set: "{F(v) : v \in {e}}" computes e once and
\* hands F the value.
Only(S) == CHOOSE y \in S : TRUE

RECURSIVE from_entry_data_list(_, _)
RECURSIVE from_map_loop(_, _, _, _, _)
RECURSIVE from_array_loop(_, _, _, _, _)

\* The end of one pass of from_map's loop, r being what decoding the value
\* returned: give up on NULL, else store the pair and go round again.
from_map_store(list, r, i, map_size, py_obj, key) ==
    IF r.fault THEN r
    ELSE IF IsNull(r.obj) THEN r
    ELSE Only({from_map_loop(list, r, j, map_size, o) :
                  j \in {i + 1}, o \in {PyDict_SetItem(py_obj, key, r.obj)}})

\* One pass of from_map's loop, c1 being the cursor moved to the key node.
from_map_pass(list, c1, i, map_size, py_obj) ==
    IF c1.cur = 0 THEN NullDeref(c1)
    ELSE Only({from_map_store(list, r, i, map_size, py_obj, key) :
                  r \in {from_entry_data_list(list, Advance(list, Visit(c1)))},
                  key \in {PyUnicode_FromStringAndSize(list[c1.cur].val,
                                                       list[c1.cur].data_size)}})

\* from_map's for loop from pass i on.
from_map_loop(list, c, i, map_size, py_obj) ==
    IF ~MapLoopCond(i, map_size, c.cur) THEN [c EXCEPT !.obj = py_obj]
    ELSE Only({from_map_pass(list, c1, i, map_size, py_obj) :
                  c1 \in {Advance(list, c)}})

from_map(list, c) ==
    from_map_loop(list, c, 0, list[c.cur].data_size, PyDict_New)

\* A slip: no test for a NULL element.
from_array_store_NoNullCheck(list, r, i, size, py_obj) ==
    IF r.fault THEN r
    ELSE Only({from_array_loop(list, r, j, size, o) :
                  j \in {i + 1},
                  o \in {PyList_SetItem(py_obj, ArraySlot(i), r.obj)}})

\* The end of one pass of from_array's loop, r being what decoding the
\* element returned.
from_array_store(list, r, i, size, py_obj) ==
    IF r.fault THEN r
    ELSE IF IsNull(r.obj) THEN r
    ELSE Only({from_array_loop(list, r, j, size, o) :
                  j \in {i + 1},
                  o \in {PyList_SetItem(py_obj, ArraySlot(i), r.obj)}})

\* from_array's for loop from pass i on.
from_array_loop(list, c, i, size, py_obj) ==
    IF ~ArrayLoopCond(i, size, c.cur) THEN [c EXCEPT !.obj = py_obj]
    ELSE Only({from_array_store(list, r, i, size, py_obj) :
                  r \in {from_entry_data_list(list, Advance(list, c))}})

from_array(list, c) ==
    from_array_loop(list, c, 0, list[c.cur].data_size,
                    PyList_New(list[c.cur].data_size))

\* The switch on (*entry_data_list)->entry_data.type.
Dispatch(list, c) ==
    CASE list[c.cur].type = MMDB_DATA_TYPE_MAP -> from_map(list, c)
      [] list[c.cur].type = MMDB_DATA_TYPE_ARRAY -> from_array(list, c)
      [] list[c.cur].type \in ScalarTypes ->
            [c EXCEPT !.obj = from_scalar(list[c.cur])]
      [] OTHER -> [c EXCEPT !.obj = NullObj,
                            !.err = InvalidDataType(list[c.cur].type)]

\* The record of a call that came back: where it started and ended.
Returned(c, r) ==
    IF r.fault THEN r
    ELSE [r EXCEPT !.calls =
             Append(@, [at |-> c.cur, ret |-> r.cur, obj |-> r.obj,
                        moves |-> Len(r.path) - Len(c.path),
                        decoded |-> Len(r.visits) - Len(c.visits)])]

from_entry_data_list(list, c) ==
    IF c.cur = 0 THEN NullDeref(c)
    ELSE Only({Returned(c0, r) : c0 \in {c}, r \in {Dispatch(list, Visit(c))}})

(* ------------------------------------------------------------------ *)
(* Entry data lists the library can hand to the decoder                *)
(* ------------------------------------------------------------------ *)

MapNode(n) == Node(MMDB_DATA_TYPE_MAP, n, <<>>)
ArrayNode(n) == Node(MMDB_DATA_TYPE_ARRAY, n, <<>>)
StrNode(str) == Node(MMDB_DATA_TYPE_UTF8_STRING, Len(str), str)
BytesNode(bytes) == Node(MMDB_DATA_TYPE_BYTES, Len(bytes), bytes)
DoubleNode(d) == Node(MMDB_DATA_TYPE_DOUBLE, 8, d)
FloatNode(f) == Node(MMDB_DATA_TYPE_FLOAT, 4, f)
Uint16Node(be) == Node(MMDB_DATA_TYPE_UINT16, 2, be)
Uint32Node(be) == Node(MMDB_DATA_TYPE_UINT32, 4, be)
Int32Node(be) == Node(MMDB_DATA_TYPE_INT32, 4, be)
Uint64Node(be) == Node(MMDB_DATA_TYPE_UINT64, 8, be)
Uint128Node(val) == Node(MMDB_DATA_TYPE_UINT128, 16, val)
BoolNode(flag) == Node(MMDB_DATA_TYPE_BOOLEAN, 1, <<flag>>)
\* A node with a tag the switch does not name (12, libmaxminddb's container).
BadNode == Node(12, 0, <<>>)

\* Scalars with the value each one stands for, written out by hand
\* (strings as UTF-8 code units).
KnownScalars ==
    << <<StrNode(<<>>), PyObj("str", <<>>)>>,
       <<StrNode(<<107>>), PyObj("str", <<107>>)>>,
       <<StrNode(<<107, 106>>), PyObj("str", <<107, 106>>)>>,
       <<BytesNode(<<>>), PyObj("bytearray", <<>>)>>,
       <<BytesNode(<<0, 255>>), PyObj("bytearray", <<0, 255>>)>>,
       <<DoubleNode(<<3, -1>>), PyObj("float", <<3, -1>>)>>,
       <<DoubleNode(<<-1, -1074>>), PyObj("float", <<-1, -1074>>)>>,
       <<DoubleNode(<<1, -149>>), PyObj("float", <<1, -149>>)>>,
       <<FloatNode(<<3, -1>>), PyObj("float", <<3, -1>>)>>,
       <<FloatNode(<<1, -149>>), PyObj("float", <<1, -149>>)>>,
       <<Uint16Node(<<0, 0>>), PyInt(FALSE, <<>>)>>,
       <<Uint16Node(<<255, 255>>), PyInt(FALSE, <<255, 255>>)>>,
       <<Uint32Node(<<0, 0, 0, 1>>), PyInt(FALSE, <<1>>)>>,
       <<Uint32Node(<<0, 0, 0, 2>>), PyInt(FALSE, <<2>>)>>,
       <<Uint32Node(<<127, 255, 255, 255>>), PyInt(FALSE, <<255, 255, 255, 127>>)>>,
       <<Uint32Node(<<128, 0, 0, 0>>), PyInt(FALSE, <<0, 0, 0, 128>>)>>,
       <<Uint32Node(<<255, 255, 255, 255>>), PyInt(FALSE, <<255, 255, 255, 255>>)>>,
       <<Int32Node(<<0, 0, 0, 0>>), PyInt(FALSE, <<>>)>>,
       <<Int32Node(<<0, 0, 1, 0>>), PyInt(FALSE, <<0, 1>>)>>,
       <<Int32Node(<<127, 255, 255, 255>>), PyInt(FALSE, <<255, 255, 255, 127>>)>>,
       <<Int32Node(<<255, 255, 255, 255>>), PyInt(TRUE, <<1>>)>>,
       <<Int32Node(<<255, 255, 255, 0>>), PyInt(TRUE, <<0, 1>>)>>,
       <<Int32Node(<<128, 0, 0, 0>>), PyInt(TRUE, <<0, 0, 0, 128>>)>>,
       <<Uint64Node(<<0, 0, 0, 0, 0, 0, 0, 0>>), PyInt(FALSE, <<>>)>>,
       <<Uint64Node(<<0, 0, 0, 1, 0, 0, 0, 0>>), PyInt(FALSE, <<0, 0, 0, 0, 1>>)>>,
       <<Uint64Node(<<128, 0, 0, 0, 0, 0, 0, 0>>),
         PyInt(FALSE, <<0, 0, 0, 0, 0, 0, 0, 128>>)>>,
       <<Uint64Node(<<255, 255, 255, 255, 255, 255, 255, 255>>),
         PyInt(FALSE, <<255, 255, 255, 255, 255, 255, 255, 255>>)>>,
       <<BoolNode(0), PyObj("bool", FALSE)>>,
       <<BoolNode(1), PyObj("bool", TRUE)>> >>

\* Uint128 payloads: at most two nonzero bytes, at the ends and around the
\* boundary of the two 64-bit halves.
U128Positions == {1, 2, 8, 9, 10, 15, 16}
U128ByteValues == {0, 1, 2, 16, 255}

U128Bytes ==
    {[i \in 1..16 |-> IF i = p THEN a ELSE IF i = q THEN b ELSE 0] :
        p \in U128Positions, q \in U128Positions,
        a \in U128ByteValues, b \in U128ByteValues}

\* The native value with the given big-endian bytes.
BytesToLimbs(bytes) == [i \in 1..8 |-> bytes[2 * i - 1] * 256 + bytes[2 * i]]

Uint128Nodes ==
    {Uint128Node(b) : b \in U128Bytes} \cup {Uint128Node(BytesToLimbs(b)) : b \in U128Bytes}

ScalarNodes == {KnownScalars[i][1] : i \in 1..Len(KnownScalars)}

\* The keys "k" and "j", as their UTF-8 code units.
Keys == {<<107>>, <<106>>}

\* The leaves of the nested values: two integers and an unsupported node.
StructLeaves == {Uint32Node(<<0, 0, 0, 1>>), Uint32Node(<<0, 0, 0, 2>>), BadNode}

\* Subtrees(n): the pre-order encodings, n nodes long, of one nested value.
\* Forests(k, n): k of them in a row; PairForests(k, n): k key/value pairs.
RECURSIVE Subtrees(_)
RECURSIVE Forests(_, _)
RECURSIVE PairForests(_, _)

Subtrees(n) ==
    IF n = 1
    THEN {<<l>> : l \in StructLeaves} \cup {<<MapNode(0)>>, <<ArrayNode(0)>>}
    ELSE UNION {{<<ArrayNode(k)>> \o f : f \in Forests(k, n - 1)} : k \in 1..MaxSize}
         \cup
         UNION {{<<MapNode(k)>> \o f : f \in PairForests(k, n - 1)} : k \in 1..MaxSize}

Forests(k, n) ==
    IF k = 0 THEN (IF n = 0 THEN {<<>>} ELSE {})
    ELSE IF n < k THEN {}
    ELSE UNION {{s \o f : s \in Subtrees(m), f \in Forests(k - 1, n - m)} :
                   m \in 1..(n - k + 1)}

PairForests(k, n) ==
    IF k = 0 THEN (IF n = 0 THEN {<<>>} ELSE {})
    ELSE IF n < 2 * k THEN {}
    ELSE UNION {{<<StrNode(key)>> \o s \o f :
                    key \in Keys, s \in Subtrees(m),
                    f \in PairForests(k - 1, n - 1 - m)} :
                   m \in 1..(n - 2 * k + 1)}

StructLists == UNION {Subtrees(n) : n \in 1..MaxLen}

\* Lists that end before the declared sizes are satisfied.
Truncations == UNION {{SubSeq(l, 1, n) : n \in 1..(Len(l) - 1)} : l \in StructLists}

\* Every scalar at the root, in an array and under a map key.
ScalarLists ==
    UNION {{<<n>>, <<ArrayNode(1), n>>, <<MapNode(1), StrNode(<<107>>), n>>} :
              n \in ScalarNodes \cup Uint128Nodes}

\* Values a float holds exactly (m * 2^e as <<m, e>>): 1.5 and the least
\* positive float.
FloatValues == {<<3, -1>>, <<1, -149>>}

\* The same value as a Float node and as a Double node, side by side.
FloatPairLists == {<<ArrayNode(2), FloatNode(v), DoubleNode(v)>> : v \in FloatValues}

Lists == StructLists \cup Truncations \cup ScalarLists \cup FloatPairLists

\* The names Reader_metadata looks up in the metadata map, in the order of
\* the source: "binary_format_major_version", "binary_format_minor_version",
\* "build_epoch", "database_type", "description", "ip_version", "languages",
\* "node_count", "record_size" (as UTF-8 code units).
MetadataKeys ==
    << <<98, 105, 110, 97, 114, 121, 95, 102, 111, 114, 109, 97, 116, 95, 109, 97,
         106, 111, 114, 95, 118, 101, 114, 115, 105, 111, 110>>,
       <<98, 105, 110, 97, 114, 121, 95, 102, 111, 114, 109, 97, 116, 95, 109,
         105, 110, 111, 114, 95, 118, 101, 114, 115, 105, 111, 110>>,
       <<98, 117, 105, 108, 100, 95, 101, 112, 111, 99, 104>>,
       <<100, 97, 116, 97, 98, 97, 115, 101, 95, 116, 121, 112, 101>>,
       <<100, 101, 115, 99, 114, 105, 112, 116, 105, 111, 110>>,
       <<105, 112, 95, 118, 101, 114, 115, 105, 111, 110>>,
       <<108, 97, 110, 103, 117, 97, 103, 101, 115>>,
       <<110, 111, 100, 101, 95, 99, 111, 117, 110, 116>>,
       <<114, 101, 99, 111, 114, 100, 95, 115, 105, 122, 101>> >>

RECURSIVE MetadataPairs(_)
MetadataPairs(i) ==
    IF i > Len(MetadataKeys) THEN <<>>
    ELSE <<StrNode(MetadataKeys[i]), Uint32Node(<<0, 0, 0, 1>>)>> \o MetadataPairs(i + 1)

\* What MMDB_get_metadata_as_entry_data_list can yield: a full metadata map,
\* and, from a damaged file, a map without the names or a value that is no map.
MetaLists ==
    {<<MapNode(Len(MetadataKeys))>> \o MetadataPairs(1),
     <<MapNode(0)>>,
     <<Uint32Node(<<0, 0, 0, 1>>)>>}

\* Longest entry data list of the databases the Reader's life cycle is run on.
ReaderMaxLen == 2

ReaderLists == {l \in StructLists \cup Truncations : Len(l) <= ReaderMaxLen}

(* ------------------------------------------------------------------ *)
(* The Reader object                                                   *)
(* ------------------------------------------------------------------ *)

VARIABLES
    db,       \* the entry data list the opened file yields for a found address
    mmdb,     \* Reader_obj.mmdb: "ptr" (the malloc'ed MMDB_s) or "NULL"
    handle,   \* the MMDB_s itself: "open" or "freed"
    closes,   \* calls of MMDB_close so far
    frees,    \* calls of free(mmdb) so far
    misuse,   \* the library or free was given the MMDB_s after it was closed
    pc,       \* "live", "dealloc" (the object is gone) or "crashed"
    last      \* the last call on the Reader and what it returned

vars == <<db, mmdb, handle, closes, frees, misuse, pc, last>>

\* The decoder did not run.
NoDecode ==
    [obj |-> NullObj, err |-> NoError, fault |-> FALSE, cur |-> 0,
     visits |-> <<>>, path |-> <<>>, calls |-> <<>>, list |-> <<>>,
     outcome |-> "none"]

Call(op, args, exc, ret, dec) ==
    [op |-> op, args |-> args, exc |-> exc, ret |-> ret, dec |-> dec]

NoCall == Call("none", "", "", NullObj, NoDecode)

PyNone == PyObj("None", <<>>)

\* What a build can do once the decoder has read through a NULL cursor:
\* die on the access, or read whatever is there and come back with no object
\* or with an object built from it.
UBOutcomes == {"crash", "return_null", "return_garbage"}

GarbageObj == PyObj("garbage", <<>>)

\* from_entry_data_list(&entry_data_list) on the head of a list.
UndefinedOutcome(d, ub) ==
    IF ~d.fault THEN d
    ELSE IF ub = "crash" THEN [d EXCEPT !.outcome = "crash"]
    ELSE IF ub = "return_null" THEN d
    ELSE [d EXCEPT !.obj = GarbageObj]

Materialize(list, ub) ==
    Only({UndefinedOutcome(
              [obj |-> r.obj, err |-> r.err, fault |-> r.fault, cur |-> r.cur,
               visits |-> r.visits, path |-> r.path, calls |-> r.calls,
               list |-> list, outcome |-> "returned"], ub) :
             r \in {from_entry_data_list(list, StartCtx)}})

\* The exception a decoder result leaves set, "" when none.
ExcOf(dec) == IF dec.err = NoError THEN "" ELSE dec.err[1]

\* Reader_constructor succeeded: obj->mmdb = mmdb, the file is open.
ReaderConstructed ==
    /\ mmdb = "ptr"
    /\ handle = "open"
    /\ closes = 0
    /\ frees = 0
    /\ misuse = FALSE
    /\ pc = "live"
    /\ last = NoCall

Init ==
    /\ db \in ReaderLists
    /\ ReaderConstructed

\* The argument of get: a str, or anything PyArg_ParseTuple(args, "s") rejects.
GetArgs == {"string", "not_string"}

\* What MMDB_lookup_string and MMDB_get_entry_data_list report.
LookupOutcomes ==
    {"gai_error", "ipv6_in_ipv4", "lookup_error", "not_found",
     "data_error", "null_list", "found"}

\* A library call on the MMDB_s: misuse if it was closed before.
LibraryCall == misuse' = (misuse \/ handle # "open")

\* The return of Reader_get past the NULL test, by what the library reports.
GetReturn(lookup, ub) ==
    CASE lookup = "gai_error" -> Call("get", "string", "ValueError", NullObj, NoDecode)
      [] lookup = "ipv6_in_ipv4" -> Call("get", "string", "ValueError", NullObj, NoDecode)
      [] lookup = "lookup_error" ->
            Call("get", "string", "InvalidDatabaseError", NullObj, NoDecode)
      [] lookup = "not_found" -> Call("get", "string", "", PyNone, NoDecode)
      [] lookup = "data_error" ->
            Call("get", "string", "InvalidDatabaseError", NullObj, NoDecode)
      [] lookup = "null_list" ->
            Call("get", "string", "InvalidDatabaseError", NullObj, NoDecode)
      [] OTHER ->
            Only({Call("get", "string", ExcOf(dec), dec.obj, dec) :
                     dec \in {Materialize(db, ub)}})

Reader_get ==
    /\ pc = "live"
    /\ \E args \in GetArgs, lookup \in LookupOutcomes, ub \in UBOutcomes :
         IF args = "not_string"
         THEN /\ last' = Call("get", args, "TypeError", NullObj, NoDecode)
              /\ UNCHANGED <<db, mmdb, handle, closes, frees, misuse, pc>>
         ELSE IF mmdb = "NULL"
         THEN /\ last' = Call("get", args, "IOError", NullObj, NoDecode)
              /\ UNCHANGED <<db, mmdb, handle, closes, frees, misuse, pc>>
         ELSE /\ LibraryCall
              /\ last' = GetReturn(lookup, ub)
              /\ pc' = IF last'.dec.outcome = "crash" THEN "crashed" ELSE pc
              /\ UNCHANGED <<db, mmdb, handle, closes, frees>>

\* PyDict_GetItemString: the value, or NULL when the name is not a key.
PyDict_GetItemString(dict, name) ==
    IF name \in DOMAIN dict.v THEN dict.v[name] ELSE NullObj

\* The return of Reader_metadata past the NULL test, for a metadata list.
MetadataFields(dict) ==
    [i \in 1..Len(MetadataKeys) |-> PyDict_GetItemString(dict, MetadataKeys[i])]

MetadataObject(dec) ==
    IF dec.outcome = "crash" THEN Call("metadata", "", "", NullObj, dec)
    ELSE IF IsNull(dec.obj) \/ dec.obj.t # "dict"
    THEN Call("metadata", "", "InvalidDatabaseError", NullObj, dec)
    ELSE IF \E i \in 1..Len(MetadataKeys) : IsNull(MetadataFields(dec.obj)[i])
    THEN Call("metadata", "", "InvalidDatabaseError", NullObj, dec)
    ELSE Call("metadata", "", "", PyObj("Metadata", MetadataFields(dec.obj)), dec)

MetadataReturn(list, ub) ==
    Only({MetadataObject(dec) : dec \in {Materialize(list, ub)}})

Reader_metadata ==
    /\ pc = "live"
    /\ IF mmdb = "NULL"
       THEN /\ last' = Call("metadata", "", "IOError", NullObj, NoDecode)
            /\ UNCHANGED <<db, mmdb, handle, closes, frees, misuse, pc>>
       ELSE \E list \in MetaLists, ub \in UBOutcomes :
              /\ LibraryCall
              /\ last' = MetadataReturn(list, ub)
              /\ pc' = IF last'.dec.outcome = "crash" THEN "crashed" ELSE pc
              /\ UNCHANGED <<db, mmdb, handle, closes, frees>>

\* A slip: the field keeps the freed pointer.
MmdbAfterClose_Dangling == "ptr"

\* What "mmdb_obj->mmdb = NULL" leaves in the field.
MmdbAfterClose == "NULL"

\* MMDB_close(mmdb_obj->mmdb); free(mmdb_obj->mmdb); mmdb_obj->mmdb = NULL;
CloseHandle ==
    /\ LibraryCall
    /\ closes' = closes + 1
    /\ frees' = frees + 1
    /\ handle' = "freed"
    /\ mmdb' = MmdbAfterClose

Reader_close ==
    /\ pc = "live"
    /\ IF mmdb = "NULL"
       THEN /\ last' = Call("close", "", "IOError", NullObj, NoDecode)
            /\ UNCHANGED <<db, mmdb, handle, closes, frees, misuse, pc>>
       ELSE /\ CloseHandle
            /\ last' = Call("close", "", "", PyNone, NoDecode)
            /\ UNCHANGED <<db, pc>>

Reader_dealloc ==
    /\ pc = "live"
    /\ IF mmdb # "NULL"
       THEN CloseHandle
       ELSE UNCHANGED <<mmdb, handle, closes, frees, misuse>>
    /\ pc' = "dealloc"
    /\ last' = Call("dealloc", "", "", NullObj, NoDecode)
    /\ UNCHANGED db

Next ==
    \/ Reader_get
    \/ Reader_metadata
    \/ Reader_close
    \/ Reader_dealloc

Spec == Init /\ [][Next]_vars

(* ------------------------------------------------------------------ *)
(* The decoder on its own: one lookup that finds an entry              *)
(* ------------------------------------------------------------------ *)

InitDecode ==
    /\ db \in Lists
    /\ ReaderConstructed

\* Lines 155-158 of Reader_get: decode the list of the entry found.
DecodeEntry ==
    /\ pc = "live"
    /\ last = NoCall
    /\ \E ub \in UBOutcomes :
         /\ LibraryCall
         /\ last' = GetReturn("found", ub)
         /\ pc' = IF last'.dec.outcome = "crash" THEN "crashed" ELSE pc
         /\ UNCHANGED <<db, mmdb, handle, closes, frees>>

NextDecode == DecodeEntry

SpecDecode == InitDecode /\ [][NextDecode]_vars

(* ------------------------------------------------------------------ *)
(* The nested value a list encodes, read off its declared sizes        *)
(* ------------------------------------------------------------------ *)

\* The nodes that follow a node as its own: 2 per pair, 1 per element.
Children(node) ==
    IF node.type = MMDB_DATA_TYPE_MAP THEN 2 * node.data_size
    ELSE IF node.type = MMDB_DATA_TYPE_ARRAY THEN node.data_size
    ELSE 0

\* The last node of the run of `need` subtrees starting at node j; 0 when
\* the list ends first.
RECURSIVE ScanEnd(_, _, _)
ScanEnd(list, j, need) ==
    IF j > Len(list) THEN 0
    ELSE LET n == need - 1 + Children(list[j])
         IN  IF n = 0 THEN j ELSE ScanEnd(list, j + 1, n)

\* The last node of the subtree rooted at node i (its last descendant).
SubtreeEnd(list, i) == ScanEnd(list, i, 1)

\* The first nodes of n subtrees in a row, the first one starting at p.
RECURSIVE ChildStarts(_, _, _)
ChildStarts(list, p, n) ==
    IF n = 0 THEN <<>>
    ELSE <<p>> \o ChildStarts(list, SubtreeEnd(list, p) + 1, n - 1)

WellFormed(list) == list # <<>> /\ SubtreeEnd(list, 1) = Len(list)

Truncated(list) == list # <<>> /\ SubtreeEnd(list, 1) = 0

KnownTypes == ScalarTypes \cup {MMDB_DATA_TYPE_MAP, MMDB_DATA_TYPE_ARRAY}

Supported(list) == \A i \in 1..Len(list) : list[i].type \in KnownTypes

IsMap(list, i) == list[i].type = MMDB_DATA_TYPE_MAP
IsArray(list, i) == list[i].type = MMDB_DATA_TYPE_ARRAY

\* The keys of the Map at node i of a well-formed list, in source order.
MapKeys(list, i) ==
    LET cs == ChildStarts(list, i + 1, 2 * list[i].data_size)
    IN  [j \in 1..list[i].data_size |-> list[cs[2 * j - 1]].val]

DistinctKeys(list) ==
    \A i \in 1..Len(list) :
        IsMap(list, i) =>
            \A a, b \in 1..list[i].data_size :
                a # b => MapKeys(list, i)[a] # MapKeys(list, i)[b]

HasDuplicateKey(list, i) ==
    \E a, b \in 1..list[i].data_size : a # b /\ MapKeys(list, i)[a] = MapKeys(list, i)[b]

\* The integer sum of b[i] * 256^(Len(b) - i), as a Python int.
BigEndianValue(bytes) == PyInt(FALSE, Normalize(Reverse(bytes)))

\* The integer a native 128-bit value holds: limb j counts 65536^(8 - j).
NativeValue(limbs) ==
    PyInt(FALSE,
          Normalize([i \in 1..16 |->
                        IF i % 2 = 1 THEN limbs[8 - (i - 1) \div 2] % 256
                        ELSE limbs[8 - (i - 1) \div 2] \div 256]))

KnownScalar(node) ==
    IF node.type = MMDB_DATA_TYPE_UINT128
    THEN IF Len(node.val) = 16 THEN BigEndianValue(node.val) ELSE NativeValue(node.val)
    ELSE IF \E i \in 1..Len(KnownScalars) : KnownScalars[i][1] = node
    THEN KnownScalars[CHOOSE i \in 1..Len(KnownScalars) : KnownScalars[i][1] = node][2]
    ELSE NullObj

\* The value the subtree at node i of a well-formed list was built from; a
\* key that occurs twice in a Map stands for its last pair.
RECURSIVE KnownValue(_, _)
KnownValue(list, i) ==
    IF IsMap(list, i)
    THEN LET n == list[i].data_size
             cs == ChildStarts(list, i + 1, 2 * n)
             keys == MapKeys(list, i)
             LastPair(k) == CHOOSE j \in 1..n :
                                keys[j] = k /\ \A j2 \in (j + 1)..n : keys[j2] # k
         IN  PyObj("dict", [k \in {keys[j] : j \in 1..n} |->
                               KnownValue(list, cs[2 * LastPair(k)])])
    ELSE IF IsArray(list, i)
    THEN LET cs == ChildStarts(list, i + 1, list[i].data_size)
         IN  PyObj("list", [j \in 1..list[i].data_size |-> KnownValue(list, cs[j])])
    ELSE KnownScalar(list[i])

\* The decimal digits of a magnitude, most significant first.
RECURSIVE DivBE(_, _, _, _)
DivBE(be, d, rem, acc) ==
    IF be = <<>> THEN <<acc, rem>>
    ELSE DivBE(Tail(be), d, (rem * 256 + be[1]) % d,
               Append(acc, (rem * 256 + be[1]) \div d))

RECURSIVE Decimal(_)
Decimal(mag) ==
    IF mag = <<>> THEN <<>>
    ELSE LET qr == DivBE(Reverse(mag), 10, 0, <<>>)
         IN  Decimal(Normalize(Reverse(qr[1]))) \o <<qr[2]>>

\* The decoder's record of the last call.
D == last.dec

Decoded == D.outcome # "none"

ReturnedOk == D.outcome = "returned" /\ ~D.fault /\ last.exc = "" /\ ~IsNull(last.ret)

SameObj(a, b) == a.t = b.t /\ a = b

\* The calls of from_entry_data_list that returned an object.
GoodCalls == {k \in 1..Len(D.calls) : ~IsNull(D.calls[k].obj)}

StrictlyForward(path) == \A k \in 1..(Len(path) - 1) : path[k + 1] = path[k] + 1

NoRevisit(visits) == \A a, b \in 1..Len(visits) : a < b => visits[a] < visits[b]

(* ------------------------------------------------------------------ *)
(* C1  Truncation detection                                            *)
(* ------------------------------------------------------------------ *)

\* C1: when the list ends before a Map's or Array's declared size is read,
\* the call fails with an error and no value, and never reads a node
\* through a NULL next pointer.
C1_TruncationDetected ==
    (Decoded /\ Truncated(D.list) /\ Supported(D.list)) =>
        /\ D.outcome = "returned"
        /\ ~D.fault
        /\ \A k \in 1..Len(D.visits) : D.visits[k] # 0
        /\ IsNull(last.ret)
        /\ last.exc # ""

(* ------------------------------------------------------------------ *)
(* C2  Round trip                                                      *)
(* ------------------------------------------------------------------ *)

\* The number of key nodes of a list: the sizes of its Maps.
RECURSIVE KeyCount(_)
KeyCount(list) ==
    IF list = <<>> THEN 0
    ELSE (IF IsMap(list, 1) THEN list[1].data_size ELSE 0) + KeyCount(Tail(list))

RoundTripInput ==
    Decoded /\ WellFormed(D.list) /\ Supported(D.list) /\ DistinctKeys(D.list)

C3_CursorOnLastNode ==
    (Decoded /\ WellFormed(D.list)) =>
        /\ StrictlyForward(D.path)
        /\ NoRevisit(D.visits)
        /\ \A k \in GoodCalls :
              LET c == D.calls[k]
              IN  /\ c.ret = SubtreeEnd(D.list, c.at)
                  /\ c.decoded = c.ret - c.at + 1
                  /\ c.moves = c.ret - c.at

\* C3 as claimed: every call that returns an object leaves the cursor on
\* the first node after the subtree (NULL after the last node).
C3_CursorPastSubtree ==
    (Decoded /\ WellFormed(D.list)) =>
        /\ StrictlyForward(D.path)
        /\ NoRevisit(D.visits)
        /\ \A k \in GoodCalls :
              D.calls[k].ret = NextNode(D.list, SubtreeEnd(D.list, D.calls[k].at))

\* A container holding a container and a node after it was decoded.
C3_Witness ==
    /\ Decoded /\ WellFormed(D.list) /\ ReturnedOk
    /\ \E k \in GoodCalls :
          /\ D.calls[k].at > 1
          /\ D.calls[k].ret > D.calls[k].at
          /\ D.calls[k].ret < Len(D.list)

(* ------------------------------------------------------------------ *)
(* C4  Float and Double                                                *)
(* ------------------------------------------------------------------ *)

FloatPairDecoded == Decoded /\ D.list \in FloatPairLists

TwoPow64Plus2Bytes == [i \in 1..16 |-> IF i = 8 THEN 1 ELSE IF i = 16 THEN 2 ELSE 0]
TwoPow64Plus2Digits == <<1, 8, 4, 4, 6, 7, 4, 4, 0, 7, 3, 7, 0, 9, 5, 5, 1, 6, 1, 8>>

\* C5: a Uint128 node decodes to the integer high * 2^64 + low, that is the
\* sum of b[i] * 256^(15 - i) of its bytes, never cut to 64 bits; the native
\* shape gives the same integer as the byte shape of the same value; bytes
\* 0x00000000000000010000000000000002 give 18446744073709551618.
C5_Uint128Exact ==
    \A k \in 1..Len(D.calls) :
        LET c == D.calls[k]
            payload == D.list[c.at].val
        IN  D.list[c.at].type = MMDB_DATA_TYPE_UINT128 =>
              /\ Len(payload) = 16 => c.obj = BigEndianValue(payload)
              /\ Len(payload) = 8 =>
                    /\ c.obj = NativeValue(payload)
                    /\ c.obj = BigEndianValue(LimbsToBytes(payload))
              /\ payload \in {TwoPow64Plus2Bytes, BytesToLimbs(TwoPow64Plus2Bytes)} =>
                    Decimal(c.obj.v.mag) = TwoPow64Plus2Digits

\* A value with a nonzero high word and a low word with leading zero digits.
C5_Witness ==
    /\ Decoded /\ ReturnedOk
    /\ D.list = <<Uint128Node(TwoPow64Plus2Bytes)>>
    /\ Len(last.ret.v.mag) = 9

(* ------------------------------------------------------------------ *)
(* C6  Unsupported kinds                                               *)
(* ------------------------------------------------------------------ *)

\* The nodes decoded whose kind the switch does not name.
BadVisits ==
    {k \in 1..Len(D.visits) :
        D.visits[k] # 0 /\ D.list[D.visits[k]].type \notin KnownTypes}

\* The calls whose subtree holds the node the cursor stopped on.
AroundFailure(c) ==
    /\ c.at <= D.cur
    /\ (SubtreeEnd(D.list, c.at) = 0 \/ D.cur <= SubtreeEnd(D.list, c.at))

C7_LastKeyWins ==
    (Decoded /\ WellFormed(D.list) /\ Supported(D.list)) =>
        /\ ReturnedOk
        /\ \A k \in 1..Len(D.calls) :
              LET c == D.calls[k]
                  keys == MapKeys(D.list, c.at)
                  cs == ChildStarts(D.list, c.at + 1, 2 * D.list[c.at].data_size)
              IN  IsMap(D.list, c.at) =>
                    /\ c.obj.t = "dict"
                    /\ DOMAIN c.obj.v = {keys[j] : j \in 1..Len(keys)}
                    /\ \A j \in 1..Len(keys) :
                          (\A j2 \in (j + 1)..Len(keys) : keys[j2] # keys[j]) =>
                              c.obj.v[keys[j]] = KnownValue(D.list, cs[2 * j])

\* The pairs ("k", 1), ("k", 2) gave the one-entry mapping k -> 2.
C7_Witness ==
    /\ Decoded /\ ReturnedOk
    /\ D.list = <<MapNode(2), StrNode(<<107>>), Uint32Node(<<0, 0, 0, 1>>),
                  StrNode(<<107>>), Uint32Node(<<0, 0, 0, 2>>)>>
    /\ DOMAIN last.ret.v = {<<107>>}
    /\ last.ret.v[<<107>>] = PyInt(FALSE, <<2>>)

(* ------------------------------------------------------------------ *)
(* C8  Order of array elements                                         *)
(* ------------------------------------------------------------------ *)

\* The object the call on node i returned.
ObjectAt(i) == D.calls[CHOOSE k \in 1..Len(D.calls) : D.calls[k].at = i].obj

\* C8: an Array of size N decodes to a sequence of length N whose i-th
\* element is what the i-th element subtree after the Array node decodes
\* to, whatever the lengths of the subtrees.
C8_ArrayOrder ==
    (Decoded /\ WellFormed(D.list)) =>
        \A k \in GoodCalls :
            LET c == D.calls[k]
                n == D.list[c.at].data_size
                cs == ChildStarts(D.list, c.at + 1, n)
            IN  IsArray(D.list, c.at) =>
                  /\ c.obj.t = "list"
                  /\ Len(c.obj.v) = n
                  /\ \A j \in 1..n :
                        /\ \E k2 \in 1..Len(D.calls) : D.calls[k2].at = cs[j]
                        /\ c.obj.v[j] = ObjectAt(cs[j])
                        /\ Supported(D.list) => c.obj.v[j] = KnownValue(D.list, cs[j])

\* Two elements of different subtree lengths and different values.
C8_Witness ==
    /\ Decoded /\ ReturnedOk /\ WellFormed(D.list)
    /\ IsArray(D.list, 1) /\ D.list[1].data_size = 2
    /\ IsArray(D.list, 2) /\ D.list[2].data_size = 1
    /\ Len(D.list) = 4
    /\ last.ret.v[1] # last.ret.v[2]

(* ------------------------------------------------------------------ *)
(* C9  Empty containers                                                *)
(* ------------------------------------------------------------------ *)

EmptyContainer(i) ==
    i # 0 /\ (IsMap(D.list, i) \/ IsArray(D.list, i)) /\ D.list[i].data_size = 0

\* C9: a Map or Array node of size 0 decodes to an empty mapping or sequence
\* with the cursor left on the node: no next pointer is read and no further
\* node decoded, whatever follows the node.
C9_EmptyContainers ==
    Decoded =>
        \A v \in 1..Len(D.visits) :
            EmptyContainer(D.visits[v]) =>
                \E k \in 1..Len(D.calls) :
                    LET c == D.calls[k]
                    IN  /\ c.at = D.visits[v]
                        /\ c.ret = c.at
                        /\ c.moves = 0
                        /\ c.decoded = 1
                        /\ c.obj.t = IF IsMap(D.list, c.at) THEN "dict" ELSE "list"
                        /\ DOMAIN c.obj.v = {}

\* An empty Map with a node after it, inside an Array.
C9_Witness ==
    /\ Decoded /\ ReturnedOk
    /\ Len(D.list) >= 3
    /\ EmptyContainer(2)
    /\ IsMap(D.list, 2)
    /\ last.ret.t = "list"
    /\ Len(last.ret.v) = 2

(* ------------------------------------------------------------------ *)
(* C10  The closed Reader                                              *)
(* ------------------------------------------------------------------ *)

HandleState == <<mmdb, handle, closes, frees, misuse>>

\* The handle is closed and freed at most once and never given to the
\* library after that; NULL in the field means closed.
HandleSafe ==
    /\ closes <= 1
    /\ frees <= 1
    /\ ~misuse
    /\ (mmdb = "NULL") = (handle = "freed")
    /\ (handle = "freed") = (closes = 1)

\* dealloc closes the handle only if it is still open.
DeallocStep ==
    pc' = "dealloc" =>
        closes' = (IF mmdb = "NULL" THEN closes ELSE closes + 1)

\* C10 as claimed: once close has succeeded, every later get, metadata or
\* close fails with an IOError and changes nothing.
C10_ClosedCallsRaiseIOError ==
    [][/\ HandleSafe'
       /\ DeallocStep
       /\ (mmdb = "NULL" /\ pc' = "live") =>
             /\ last'.exc = "IOError"
             /\ IsNull(last'.ret)
             /\ HandleState' = HandleState]_vars

\* C10 as amended: once close has succeeded, every later metadata or close
\* and every later get whose argument is a string fails with an IOError;
\* a get whose argument is not a string fails with the argument parser's
\* TypeError before the handle is looked at; none of them changes the
\* Reader or reaches the library.
C10_ClosedReaderSafe ==
    [][/\ HandleSafe'
       /\ DeallocStep
       /\ (mmdb = "NULL" /\ pc' = "live") =>
             /\ last'.exc = (IF last'.op = "get" /\ last'.args = "not_string"
                             THEN "TypeError" ELSE "IOError")
             /\ IsNull(last'.ret)
             /\ last'.dec = NoDecode
             /\ HandleState' = HandleState]_vars

\* A get with a string argument after a close.
C10_Witness ==
    /\ closes = 1
    /\ mmdb = "NULL"
    /\ last.op = "get"
    /\ last.args = "string"
    /\ last.exc = "IOError"

====
